---- MODULE Spec2Model ----
(***************************************************************************)
(* Model of the quiz application: the App component (screen state machine   *)
(* and question acquisition), the SubjectSelection, QuizDisplay and Results *)
(* components' local state and controls, and the question service           *)
(* (remote generation with validation, static bank with shuffle).           *)
(***************************************************************************)
EXTENDS Integers, Sequences, FiniteSets, TLC

(***************************************************************************)
(* Bounds of the model.                                                     *)
(***************************************************************************)
\* Math.random() yields one of the values k / RandLevels, k in 0..RandLevels-1
RandLevels == 1
\* longest array a remote response carries
MaxBatch == 2

(***************************************************************************)
(* JavaScript values.  A string is a sequence of characters; a number is    *)
(* n + f/2 (f = 1 gives the non-integers n.5).                              *)
(***************************************************************************)
Null == "null"

Undefined == [t |-> "undefined", s |-> <<>>, n |-> 0, f |-> 0]

Str(chars) == [t |-> "string", s |-> chars, n |-> 0, f |-> 0]

Num(i) == [t |-> "number", s |-> <<>>, n |-> i, f |-> 0]

NumHalf(i) == [t |-> "number", s |-> <<>>, n |-> i, f |-> 1]

\* typeof v
TypeOf(v) == v.t

\* !v
Falsy(v) ==
    \/ v.t = "undefined"
    \/ v.t = "string" /\ v.s = <<>>
    \/ v.t = "number" /\ v.n = 0 /\ v.f = 0

\* a < b on numbers
NumLess(a, b) == 2 * a.n + a.f < 2 * b.n + b.f

\* optionIndex === v, optionIndex an integer
StrictEqualsIndex(optionIndex, v) ==
    v.t = "number" /\ v.f = 0 /\ v.n = optionIndex

Whitespace == {" ", "\t"}

RECURSIVE TrimStart(_)
TrimStart(chars) ==
    IF chars # <<>> /\ Head(chars) \in Whitespace
    THEN TrimStart(Tail(chars))
    ELSE chars

RECURSIVE TrimEnd(_)
TrimEnd(chars) ==
    IF chars # <<>> /\ chars[Len(chars)] \in Whitespace
    THEN TrimEnd(SubSeq(chars, 1, Len(chars) - 1))
    ELSE chars

\* a trim that leaves the whitespace at the end
TrimLeavesEnd(chars) == TrimStart(chars)

\* String.prototype.trim
Trim(chars) == TrimEnd(TrimStart(chars))

(***************************************************************************)
(* generateQuizQuestions: the validation of one candidate of the response.  *)
(* A candidate is [question, options, correctAnswer, explanation] of        *)
(* JavaScript values; options is [isArray, items].                          *)
(***************************************************************************)
\* ValidationError that tests options.length < 4 instead of !== 4
ValidationErrorAtLeastFour(q) ==
    IF Falsy(q.question) \/ TypeOf(q.question) # "string"
    THEN "Missing or invalid question text"
    ELSE IF ~q.options.isArray \/ Len(q.options.items) < 4
    THEN "Must have exactly 4 options"
    ELSE IF \E k \in 1..Len(q.options.items) : TypeOf(q.options.items[k]) # "string"
    THEN "All options must be strings"
    ELSE IF \/ TypeOf(q.correctAnswer) # "number"
            \/ NumLess(q.correctAnswer, Num(0))
            \/ NumLess(Num(3), q.correctAnswer)
    THEN "correctAnswer must be 0-3"
    ELSE IF Falsy(q.explanation) \/ TypeOf(q.explanation) # "string"
    THEN "Missing or invalid explanation"
    ELSE "none"

\* ValidationError that tests the explanation before the other fields
ValidationErrorExplanationFirst(q) ==
    IF Falsy(q.explanation) \/ TypeOf(q.explanation) # "string"
    THEN "Missing or invalid explanation"
    ELSE IF Falsy(q.question) \/ TypeOf(q.question) # "string"
    THEN "Missing or invalid question text"
    ELSE IF ~q.options.isArray \/ Len(q.options.items) # 4
    THEN "Must have exactly 4 options"
    ELSE IF \E k \in 1..Len(q.options.items) : TypeOf(q.options.items[k]) # "string"
    THEN "All options must be strings"
    ELSE IF \/ TypeOf(q.correctAnswer) # "number"
            \/ NumLess(q.correctAnswer, Num(0))
            \/ NumLess(Num(3), q.correctAnswer)
    THEN "correctAnswer must be 0-3"
    ELSE "none"

ValidationError(q) ==
    IF Falsy(q.question) \/ TypeOf(q.question) # "string"
    THEN "Missing or invalid question text"
    ELSE IF ~q.options.isArray \/ Len(q.options.items) # 4
    THEN "Must have exactly 4 options"
    ELSE IF \E k \in 1..Len(q.options.items) : TypeOf(q.options.items[k]) # "string"
    THEN "All options must be strings"
    ELSE IF \/ TypeOf(q.correctAnswer) # "number"
            \/ NumLess(q.correctAnswer, Num(0))
            \/ NumLess(Num(3), q.correctAnswer)
    THEN "correctAnswer must be 0-3"
    ELSE IF Falsy(q.explanation) \/ TypeOf(q.explanation) # "string"
    THEN "Missing or invalid explanation"
    ELSE "none"

\* the cleaned question the map callback returns for a candidate that passes
CleanQuestion(q) ==
    [question |-> Trim(q.question.s),
     options |-> [k \in 1..Len(q.options.items) |-> Trim(q.options.items[k].s)],
     correctAnswer |-> q.correctAnswer,
     explanation |-> Trim(q.explanation.s)]

\* BatchThrows that looks at the first candidate only
BatchThrowsOnFirstOnly(batch) == Len(batch) > 0 /\ ValidationError(batch[1]) # "none"

\* questions.map(...): throws when some candidate fails, else the cleaned list
BatchThrows(batch) == \E k \in 1..Len(batch) : ValidationError(batch[k]) # "none"

ValidatedQuestions(batch) == [k \in 1..Len(batch) |-> CleanQuestion(batch[k])]

(***************************************************************************)
(* generateMockQuestions: the static question bank.  The text of a bank     *)
(* entry is abbreviated to its subject, difficulty and position; the        *)
(* correctAnswer values are those of the source.                            *)
(***************************************************************************)
Subjects ==
    <<"Data Structures", "Algorithms", "Database Management", "Operating Systems",
      "Computer Networks", "Web Development", "Cloud Computing", "DevOps">>

Difficulties == <<"easy", "medium", "hard">>

BankSubjects == {Subjects[k] : k \in 1..Len(Subjects)}

BankDifficulties == {Difficulties[k] : k \in 1..Len(Difficulties)}

CorrectAnswers ==
    [s \in BankSubjects |->
        CASE s = "Data Structures" ->
                [easy |-> <<1, 1, 1, 1, 1>>, medium |-> <<2, 2, 3, 2, 1>>, hard |-> <<1, 2, 2, 1, 1>>]
          [] s = "Algorithms" ->
                [easy |-> <<1, 2, 2, 1, 1>>, medium |-> <<1, 2, 1, 1, 1>>, hard |-> <<1, 1, 1, 1, 1>>]
          [] s = "Database Management" ->
                [easy |-> <<1, 1, 1, 1, 1>>, medium |-> <<0, 1, 1, 1, 1>>, hard |-> <<1, 1, 1, 1, 1>>]
          [] s = "Operating Systems" ->
                [easy |-> <<1, 1, 1, 1, 1>>, medium |-> <<2, 1, 1, 1, 1>>, hard |-> <<1, 1, 1, 1, 1>>]
          [] s = "Computer Networks" ->
                [easy |-> <<1, 1, 1, 1, 1>>, medium |-> <<1, 1, 1, 2, 1>>, hard |-> <<1, 1, 1, 1, 1>>]
          [] s = "Web Development" ->
                [easy |-> <<0, 1, 1, 1, 1>>, medium |-> <<2, 1, 1, 1, 1>>, hard |-> <<1, 1, 1, 1, 1>>]
          [] s = "Cloud Computing" ->
                [easy |-> <<1, 0, 0, 0, 1>>, medium |-> <<2, 1, 1, 1, 1>>, hard |-> <<1, 1, 1, 1, 1>>]
          [] s = "DevOps" ->
                [easy |-> <<1, 0, 0, 1, 1>>, medium |-> <<0, 1, 1, 2, 1>>, hard |-> <<1, 1, 1, 1, 1>>]]

\* the k-th entry of mockQuestions[subject][difficulty]
BankQuestion(subject, difficulty, k) ==
    [question |-> <<subject, difficulty, ToString(k)>>,
     options |-> << <<"A">>, <<"B">>, <<"C">>, <<"D">> >>,
     correctAnswer |-> Num(CorrectAnswers[subject][difficulty][k]),
     explanation |-> <<"explanation", subject, difficulty, ToString(k)>>]

\* mockQuestions[subject][difficulty]
BankList(subject, difficulty) ==
    [k \in 1..Len(CorrectAnswers[subject][difficulty]) |-> BankQuestion(subject, difficulty, k)]

\* MockLookup whose default for a subject of the bank is its medium list
MockLookupMediumDefault(subject, difficulty) ==
    IF subject \in BankSubjects /\ difficulty \in BankDifficulties
    THEN BankList(subject, difficulty)
    ELSE IF subject \in BankSubjects
    THEN BankList(subject, "medium")
    ELSE BankList("Data Structures", "medium")

\* MockLookup without the default subject: nothing for an unknown subject
MockLookupNoDefault(subject, difficulty) ==
    IF subject \in BankSubjects /\ difficulty \in BankDifficulties
    THEN BankList(subject, difficulty)
    ELSE IF subject \in BankSubjects
    THEN BankList(subject, "easy")
    ELSE <<>>

\* mockQuestions[subject]?.[difficulty] || mockQuestions[subject]?.easy
\*   || mockQuestions['Data Structures'].easy
MockLookup(subject, difficulty) ==
    IF subject \in BankSubjects /\ difficulty \in BankDifficulties
    THEN BankList(subject, difficulty)
    ELSE IF subject \in BankSubjects
    THEN BankList(subject, "easy")
    ELSE BankList("Data Structures", "easy")

\* Math.floor(Math.random() * (i + 1)) for Math.random() = level / RandLevels
RandomIndex(level, i) == (level * (i + 1)) \div RandLevels

\* Swap that assigns a[i] only: a[i] = a[j]
SwapOverwrites(a, i, j) ==
    [k \in 1..Len(a) |-> IF k = i + 1 THEN a[j + 1] ELSE a[k]]

\* [a[i], a[j]] = [a[j], a[i]] on 0-based indices
Swap(a, i, j) ==
    [k \in 1..Len(a) |-> IF k = i + 1 THEN a[j + 1] ELSE IF k = j + 1 THEN a[i + 1] ELSE a[k]]

\* the loop of shuffleArray from index i down to 1, drawing its random levels from rs
RECURSIVE ShuffleFrom(_, _, _)
ShuffleFrom(shuffled, i, rs) ==
    IF i <= 0
    THEN shuffled
    ELSE ShuffleFrom(Swap(shuffled, i, RandomIndex(Head(rs), i)), i - 1, Tail(rs))

shuffleArray(array, rs) == ShuffleFrom(array, Len(array) - 1, rs)

\* the random levels one shuffle of an array of length n consumes
RandomDraws(n) == [1..(IF n > 0 THEN n - 1 ELSE 0) -> 0..(RandLevels - 1)]

\* slice(0, 4)
SliceFour(array) == SubSeq(array, 1, IF Len(array) < 4 THEN Len(array) ELSE 4)

\* array.slice(0, 5)
SliceFive(array) == SubSeq(array, 1, IF Len(array) < 5 THEN Len(array) ELSE 5)

generateMockQuestions(subject, difficulty, rs) ==
    SliceFive(shuffleArray(MockLookup(subject, difficulty), rs))

(***************************************************************************)
(* The second definition of generateMockQuestions in aiService.js: one list *)
(* of five entries per subject, returned whole and in order.                *)
(***************************************************************************)
CorrectAnswersBySubject ==
    [s \in BankSubjects |->
        CASE s = "Data Structures" -> <<2, 1, 2, 3, 0>>
          [] s = "Algorithms" -> <<1, 2, 1, 2, 1>>
          [] s = "Database Management" -> <<0, 1, 1, 2, 1>>
          [] s = "Operating Systems" -> <<1, 2, 1, 1, 1>>
          [] s = "Computer Networks" -> <<1, 1, 1, 2, 3>>
          [] s = "Web Development" -> <<0, 2, 1, 1, 1>>
          [] s = "Cloud Computing" -> <<0, 2, 1, 1, 1>>
          [] s = "DevOps" -> <<0, 1, 1, 1, 2>>]

\* mockQuestions[subject] of the second definition
BankListBySubject(subject) ==
    [k \in 1..Len(CorrectAnswersBySubject[subject]) |->
        [question |-> <<subject, ToString(k)>>,
         options |-> << <<"A">>, <<"B">>, <<"C">>, <<"D">> >>,
         correctAnswer |-> Num(CorrectAnswersBySubject[subject][k]),
         explanation |-> <<"explanation", subject, ToString(k)>>]]

\* return mockQuestions[subject] || mockQuestions['Data Structures']
generateMockQuestionsBySubject(subject, difficulty) ==
    IF subject \in BankSubjects
    THEN BankListBySubject(subject)
    ELSE BankListBySubject("Data Structures")

(***************************************************************************)
(* The remote response and generateQuizQuestions.                           *)
(***************************************************************************)
\* candidates a remote response may carry
ValidCandidateA ==
    [question |-> Str(<<" ", "R", "1", " ">>),
     options |-> [isArray |-> TRUE,
                  items |-> <<Str(<<"a", " ">>), Str(<<"b">>), Str(<<"c">>), Str(<<"d">>)>>],
     correctAnswer |-> Num(0),
     explanation |-> Str(<<"w", "h", "y", "\t">>)]

ValidCandidateB ==
    [question |-> Str(<<"R", "2">>),
     options |-> [isArray |-> TRUE,
                  items |-> <<Str(<<"a">>), Str(<<"b">>), Str(<<"c">>), Str(<<"d">>)>>],
     correctAnswer |-> Num(1),
     explanation |-> Str(<<"w", "h", "y">>)]

ThreeOptionsCandidate ==
    [ValidCandidateB EXCEPT !.options.items = <<Str(<<"a">>), Str(<<"b">>), Str(<<"c">>)>>]

NoExplanationCandidate == [ValidCandidateA EXCEPT !.explanation = Undefined]

FiveOptionsCandidate ==
    [ValidCandidateB EXCEPT
        !.options.items = <<Str(<<"a">>), Str(<<"b">>), Str(<<"c">>), Str(<<"d">>), Str(<<"e">>)>>]

AnswerFourCandidate == [ValidCandidateB EXCEPT !.correctAnswer = Num(4)]

AnswerMinusOneCandidate == [ValidCandidateB EXCEPT !.correctAnswer = Num(-1)]

EmptyQuestionCandidate == [ValidCandidateA EXCEPT !.question = Str(<<>>)]

Candidates ==
    {ValidCandidateA, ValidCandidateB, ThreeOptionsCandidate, NoExplanationCandidate,
     FiveOptionsCandidate, AnswerFourCandidate, AnswerMinusOneCandidate, EmptyQuestionCandidate}

Batches == UNION {[1..n -> Candidates] : n \in 0..MaxBatch}

\* what the remote call can come back with
Responses ==
    {[kind |-> k, batch |-> <<>>] : k \in {"network", "http", "parse", "notArray"}}
        \cup {[kind |-> "array", batch |-> b] : b \in Batches}

NoResponse == [kind |-> "none", batch |-> <<>>]

Thrown(msg, idx) == [thrown |-> TRUE, message |-> msg, index |-> idx, value |-> <<>>]

Returned(list) == [thrown |-> FALSE, message |-> "", index |-> 0, value |-> list]

\* index of the first candidate the map callback throws on
FirstInvalid(batch) ==
    CHOOSE k \in 1..Len(batch) :
        /\ ValidationError(batch[k]) # "none"
        /\ \A m \in 1..(k - 1) : ValidationError(batch[m]) = "none"

\* the numberOfQuestions handleSelectSubject asks for
RequestedCount == 5

\* generateQuizQuestions that throws when the array has not the requested length
generateQuizQuestionsStrictCount(keyConfigured, response) ==
    IF ~keyConfigured
    THEN Thrown("OpenAI API key not configured", 0)
    ELSE IF response.kind = "network"
    THEN Thrown("Failed to fetch", 0)
    ELSE IF response.kind = "http"
    THEN Thrown("Failed to generate questions", 0)
    ELSE IF response.kind = "parse"
    THEN Thrown("Unexpected token", 0)
    ELSE IF response.kind = "notArray"
    THEN Thrown("Invalid response format: expected array of questions", 0)
    ELSE IF Len(response.batch) # RequestedCount
    THEN Thrown("Expected 5 questions", 0)
    ELSE IF BatchThrows(response.batch)
    THEN Thrown(ValidationError(response.batch[FirstInvalid(response.batch)]),
                FirstInvalid(response.batch))
    ELSE Returned(ValidatedQuestions(response.batch))

\* generateQuizQuestions without the test of the key
generateQuizQuestionsNoKeyCheck(keyConfigured, response) ==
    IF response.kind = "network"
    THEN Thrown("Failed to fetch", 0)
    ELSE IF response.kind = "http"
    THEN Thrown("Failed to generate questions", 0)
    ELSE IF response.kind = "parse"
    THEN Thrown("Unexpected token", 0)
    ELSE IF response.kind = "notArray"
    THEN Thrown("Invalid response format: expected array of questions", 0)
    ELSE IF BatchThrows(response.batch)
    THEN Thrown(ValidationError(response.batch[FirstInvalid(response.batch)]),
                FirstInvalid(response.batch))
    ELSE Returned(ValidatedQuestions(response.batch))

\* generateQuizQuestions, given whether the key is configured and what the
\* remote call comes back with
generateQuizQuestions(keyConfigured, response) ==
    IF ~keyConfigured
    THEN Thrown("OpenAI API key not configured", 0)
    ELSE IF response.kind = "network"
    THEN Thrown("Failed to fetch", 0)
    ELSE IF response.kind = "http"
    THEN Thrown("Failed to generate questions", 0)
    ELSE IF response.kind = "parse"
    THEN Thrown("Unexpected token", 0)
    ELSE IF response.kind = "notArray"
    THEN Thrown("Invalid response format: expected array of questions", 0)
    ELSE IF BatchThrows(response.batch)
    THEN Thrown(ValidationError(response.batch[FirstInvalid(response.batch)]),
                FirstInvalid(response.batch))
    ELSE Returned(ValidatedQuestions(response.batch))

(***************************************************************************)
(* The application state.                                                   *)
(***************************************************************************)
VARIABLES
    apiKey,             \* OPENAI_API_KEY is configured
    appState,           \* App: "selection", "loading", "quiz", "results"
    selectedSubject,    \* App
    selectedDifficulty, \* App
    questions,          \* App
    quizResults,        \* App: <<>> for null, else <<[score, totalQuestions]>>
    loading,            \* App
    error,              \* App
    calls,              \* the handleSelectSubject calls suspended at their await
    warned,             \* what the latest step passed to console.warn
    cardSubject,        \* SubjectSelection: selectedSubject
    difficulty,         \* SubjectSelection
    currentQuestion,    \* QuizDisplay
    score,              \* QuizDisplay
    selectedAnswers,    \* QuizDisplay: question index -> option index
    showResult          \* QuizDisplay

appVars == <<appState, selectedSubject, selectedDifficulty, questions, quizResults, loading, error>>

selectionVars == <<cardSubject, difficulty>>

quizVars == <<currentQuestion, score, selectedAnswers, showResult>>

vars == <<apiKey, appVars, calls, warned, selectionVars, quizVars>>

NoWarning == [message |-> "", index |-> 0]

NoAnswers == [k \in {} |-> 0]

\* the subject cards the user clicks on
OfferedSubjects == {"Data Structures", "Algorithms"}

OfferedDifficulties == BankDifficulties

Init ==
    /\ apiKey \in BOOLEAN
    /\ appState = "selection"
    /\ selectedSubject = Null
    /\ selectedDifficulty = Null
    /\ questions = <<>>
    /\ quizResults = <<>>
    /\ loading = FALSE
    /\ error = Null
    /\ calls = <<>>
    /\ warned = NoWarning
    /\ cardSubject = Null
    /\ difficulty = "medium"
    /\ currentQuestion = 0
    /\ score = 0
    /\ selectedAnswers = NoAnswers
    /\ showResult = FALSE

(***************************************************************************)
(* What App renders.                                                        *)
(***************************************************************************)
ErrorBannerShown == error # Null

SelectionShown == appState = "selection" /\ ~loading

QuizShown == appState = "quiz" /\ ~loading

\* the results rendered whenever a result is held, whatever the screen
ResultsShownWheneverSet == quizResults # <<>>

ResultsShown == appState = "results" /\ quizResults # <<>>

\* A component that App stops rendering is unmounted and its state discarded;
\* mounted again it starts from its useState initial values.  The variables of
\* a component that is not mounted hold these initial values.
RenderSelection ==
    IF SelectionShown'
    THEN UNCHANGED selectionVars
    ELSE cardSubject' = Null /\ difficulty' = "medium"

\* a QuizDisplay that keeps its state while it is not rendered
RenderQuizKeepsState == UNCHANGED quizVars

RenderQuiz ==
    IF QuizShown'
    THEN UNCHANGED quizVars
    ELSE /\ currentQuestion' = 0
         /\ score' = 0
         /\ selectedAnswers' = NoAnswers
         /\ showResult' = FALSE

(***************************************************************************)
(* App: handleSelectSubject.                                                *)
(***************************************************************************)
\* handleSelectSubject that starts with setQuizResults(null)
HandleSelectSubjectClearsResults(subject, level) ==
    /\ selectedSubject' = subject
    /\ selectedDifficulty' = level
    /\ appState' = "loading"
    /\ error' = Null
    /\ loading' = TRUE
    /\ quizResults' = <<>>
    /\ calls' = Append(calls, [subject |-> subject, difficulty |-> level, response |-> NoResponse])
    /\ warned' = NoWarning
    /\ UNCHANGED <<apiKey, questions>>
    /\ RenderSelection
    /\ RenderQuiz

\* handleSelectSubject up to its await: the call is suspended until
\* generateQuizQuestions settles
HandleSelectSubject(subject, level) ==
    /\ selectedSubject' = subject
    /\ selectedDifficulty' = level
    /\ appState' = "loading"
    /\ error' = Null
    /\ loading' = TRUE
    /\ calls' = Append(calls, [subject |-> subject, difficulty |-> level, response |-> NoResponse])
    /\ warned' = NoWarning
    /\ UNCHANGED <<apiKey, questions, quizResults>>
    /\ RenderSelection
    /\ RenderQuiz

\* RemoteFails for a call that repeats its request after a failure
RemoteFailsAgain ==
    \E c \in 1..Len(calls) :
        \E response \in {x \in Responses : x.kind # "array"} :
            /\ apiKey
            /\ calls[c].response.kind # "array"
            /\ calls' = [calls EXCEPT ![c].response = response]
            /\ warned' = NoWarning
            /\ UNCHANGED <<apiKey, appVars, selectionVars, quizVars>>

\* the request of a suspended call fails, or its body is no JSON array
RemoteFails ==
    \E c \in 1..Len(calls) :
        \E response \in {x \in Responses : x.kind # "array"} :
            /\ apiKey
            /\ calls[c].response = NoResponse
            /\ calls' = [calls EXCEPT ![c].response = response]
            /\ warned' = NoWarning
            /\ UNCHANGED <<apiKey, appVars, selectionVars, quizVars>>

\* the request of a suspended call succeeds with a JSON array of candidates
RemoteAnswers ==
    \E c \in 1..Len(calls) :
        \E response \in {x \in Responses : x.kind = "array"} :
            /\ apiKey
            /\ calls[c].response = NoResponse
            /\ calls' = [calls EXCEPT ![c].response = response]
            /\ warned' = NoWarning
            /\ UNCHANGED <<apiKey, appVars, selectionVars, quizVars>>

\* GeneratedQuestions whose catch lets the error of JSON.parse through
GeneratedQuestionsParseErrorEscapes(call, r, rs) ==
    IF r.thrown /\ r.message # "Unexpected token"
    THEN Returned(generateMockQuestions(call.subject, call.difficulty, rs))
    ELSE r

\* GeneratedQuestions without the inner catch: the throw of the call propagates
GeneratedQuestionsRethrows(call, r, rs) == r

\* the inner try/catch around the call r of generateQuizQuestions: the remote
\* questions, or the bank's when the call threw
GeneratedQuestions(call, r, rs) ==
    IF r.thrown
    THEN Returned(generateMockQuestions(call.subject, call.difficulty, rs))
    ELSE r

\* what the inner catch hands to console.warn
Warning(r) == IF r.thrown THEN [message |-> r.message, index |-> r.index] ELSE NoWarning

\* the random levels the bank fallback of a call draws, if the fallback runs
Draws(call, r) ==
    IF r.thrown
    THEN RandomDraws(Len(MockLookup(call.subject, call.difficulty)))
    ELSE {<<>>}

\* generateQuizQuestions has settled: without a key it throws before any
\* request, with a key once the response is there
Settled(call) == ~apiKey \/ call.response # NoResponse

\* Resume without the finally block: loading is left as it is
ResumeKeepsLoading(c, rs) ==
    LET r == generateQuizQuestions(apiKey, calls[c].response)
        g == GeneratedQuestions(calls[c], r, rs)
    IN  /\ calls' = [k \in 1..(Len(calls) - 1) |-> IF k < c THEN calls[k] ELSE calls[k + 1]]
        /\ warned' = Warning(r)
        /\ IF g.thrown
           THEN /\ error' = g.message
                /\ appState' = "selection"
                /\ UNCHANGED questions
           ELSE /\ questions' = g.value
                /\ appState' = "quiz"
                /\ UNCHANGED error
        /\ UNCHANGED <<apiKey, selectedSubject, selectedDifficulty, quizResults, loading>>
        /\ RenderSelection
        /\ RenderQuiz

\* handleSelectSubject from its await to its end, for the suspended call c
Resume(c, rs) ==
    LET r == generateQuizQuestions(apiKey, calls[c].response)
        g == GeneratedQuestions(calls[c], r, rs)
    IN  /\ calls' = [k \in 1..(Len(calls) - 1) |-> IF k < c THEN calls[k] ELSE calls[k + 1]]
        /\ warned' = Warning(r)
        /\ loading' = FALSE
        /\ IF g.thrown
           THEN /\ error' = g.message
                /\ appState' = "selection"
                /\ UNCHANGED questions
           ELSE /\ questions' = g.value
                /\ appState' = "quiz"
                /\ UNCHANGED error
        /\ UNCHANGED <<apiKey, selectedSubject, selectedDifficulty, quizResults>>
        /\ RenderSelection
        /\ RenderQuiz

SelectSubjectResumes ==
    \E c \in 1..Len(calls) :
        \E rs \in Draws(calls[c], generateQuizQuestions(apiKey, calls[c].response)) :
            /\ Settled(calls[c])
            /\ Resume(c, rs)

(***************************************************************************)
(* App: handleQuizComplete, handleRetry, handleSelectNewSubject.            *)
(***************************************************************************)
\* handleQuizComplete that also empties the question list
HandleQuizCompleteClearsQuestions(results) ==
    /\ quizResults' = <<results>>
    /\ appState' = "results"
    /\ questions' = <<>>
    /\ UNCHANGED <<selectedSubject, selectedDifficulty, loading, error>>

HandleQuizComplete(results) ==
    /\ quizResults' = <<results>>
    /\ appState' = "results"
    /\ UNCHANGED <<selectedSubject, selectedDifficulty, questions, loading, error>>

HandleRetry == HandleSelectSubject(selectedSubject, selectedDifficulty)

\* handleSelectNewSubject without setSelectedSubject(null)
HandleSelectNewSubjectKeepsSubject ==
    /\ appState' = "selection"
    /\ selectedDifficulty' = Null
    /\ questions' = <<>>
    /\ quizResults' = <<>>
    /\ error' = Null
    /\ warned' = NoWarning
    /\ UNCHANGED <<apiKey, loading, calls, selectedSubject>>
    /\ RenderSelection
    /\ RenderQuiz

\* handleSelectNewSubject without setQuizResults(null)
HandleSelectNewSubjectKeepsResults ==
    /\ appState' = "selection"
    /\ selectedSubject' = Null
    /\ selectedDifficulty' = Null
    /\ questions' = <<>>
    /\ error' = Null
    /\ warned' = NoWarning
    /\ UNCHANGED <<apiKey, loading, calls, quizResults>>
    /\ RenderSelection
    /\ RenderQuiz

HandleSelectNewSubject ==
    /\ appState' = "selection"
    /\ selectedSubject' = Null
    /\ selectedDifficulty' = Null
    /\ questions' = <<>>
    /\ quizResults' = <<>>
    /\ error' = Null
    /\ warned' = NoWarning
    /\ UNCHANGED <<apiKey, loading, calls>>
    /\ RenderSelection
    /\ RenderQuiz

(***************************************************************************)
(* SubjectSelection.                                                        *)
(***************************************************************************)
ClickSubjectCard ==
    \E s \in OfferedSubjects :
        /\ SelectionShown
        /\ cardSubject' = s
        /\ warned' = NoWarning
        /\ UNCHANGED <<apiKey, appVars, calls, difficulty, quizVars>>

ClickDifficulty ==
    \E level \in OfferedDifficulties :
        /\ SelectionShown
        /\ difficulty' = level
        /\ warned' = NoWarning
        /\ UNCHANGED <<apiKey, appVars, calls, cardSubject, quizVars>>

\* the start button's disabled attribute
StartDisabled == cardSubject = Null

\* handleStart that passes the initial difficulty instead of the chosen one
HandleStartDefaultDifficulty ==
    /\ cardSubject # Null
    /\ HandleSelectSubject(cardSubject, "medium")

\* handleStart that reports a missing subject as an error
HandleStartReportsMissing ==
    IF cardSubject # Null
    THEN HandleSelectSubject(cardSubject, difficulty)
    ELSE /\ error' = "Please select a subject"
         /\ warned' = NoWarning
         /\ UNCHANGED <<apiKey, appState, selectedSubject, selectedDifficulty, questions,
                        quizResults, loading, calls, selectionVars, quizVars>>

\* handleStart without its test of selectedSubject
HandleStartUnguarded == HandleSelectSubject(cardSubject, difficulty)

\* handleStart: without a selected subject it returns without any effect
HandleStart ==
    /\ cardSubject # Null
    /\ HandleSelectSubject(cardSubject, difficulty)

ClickStart ==
    /\ SelectionShown
    /\ ~StartDisabled
    /\ HandleStart

(***************************************************************************)
(* QuizDisplay.                                                             *)
(***************************************************************************)
\* questions[currentQuestion]
Question == questions[currentQuestion + 1]

\* the early return of QuizDisplay: nothing but a placeholder is rendered
QuizEmpty == Len(questions) = 0

isAnswered == currentQuestion \in DOMAIN selectedAnswers

\* !selectedAnswers[currentQuestion]
NoTruthyAnswer == currentQuestion \notin DOMAIN selectedAnswers \/ selectedAnswers[currentQuestion] = 0

\* AnswerClick that counts every recorded answer as correct
AnswerClickAlwaysScores(optionIndex) ==
    IF currentQuestion \notin DOMAIN selectedAnswers \/ selectedAnswers[currentQuestion] = 0
    THEN [selectedAnswers |->
              [k \in DOMAIN selectedAnswers \cup {currentQuestion} |->
                  IF k = currentQuestion THEN optionIndex ELSE selectedAnswers[k]],
          score |-> score + 1,
          showResult |-> TRUE]
    ELSE [selectedAnswers |-> selectedAnswers, score |-> score, showResult |-> showResult]

\* the state handleAnswerClick(optionIndex) leaves behind
AnswerClick(optionIndex) ==
    IF NoTruthyAnswer
    THEN [selectedAnswers |->
              [k \in DOMAIN selectedAnswers \cup {currentQuestion} |->
                  IF k = currentQuestion THEN optionIndex ELSE selectedAnswers[k]],
          score |-> IF StrictEqualsIndex(optionIndex, Question.correctAnswer)
                    THEN score + 1 ELSE score,
          showResult |-> TRUE]
    ELSE [selectedAnswers |-> selectedAnswers, score |-> score, showResult |-> showResult]

HandleAnswerClick(optionIndex) ==
    /\ selectedAnswers' = AnswerClick(optionIndex).selectedAnswers
    /\ score' = AnswerClick(optionIndex).score
    /\ showResult' = AnswerClick(optionIndex).showResult
    /\ warned' = NoWarning
    /\ UNCHANGED <<apiKey, appVars, calls, selectionVars, currentQuestion>>

\* NextClick without the test of the last question
NextClickUnbounded ==
    [currentQuestion |-> currentQuestion + 1, showResult |-> FALSE, complete |-> FALSE]

\* NextClick that leaves the feedback as it is
NextClickKeepsFeedback ==
    IF currentQuestion < Len(questions) - 1
    THEN [currentQuestion |-> currentQuestion + 1, showResult |-> showResult, complete |-> FALSE]
    ELSE [currentQuestion |-> currentQuestion, showResult |-> showResult, complete |-> TRUE]

\* NextClick that moves on by two questions where it can
NextClickDoubleStep ==
    IF currentQuestion < Len(questions) - 2
    THEN [currentQuestion |-> currentQuestion + 2, showResult |-> FALSE, complete |-> FALSE]
    ELSE IF currentQuestion < Len(questions) - 1
    THEN [currentQuestion |-> currentQuestion + 1, showResult |-> FALSE, complete |-> FALSE]
    ELSE [currentQuestion |-> currentQuestion, showResult |-> showResult, complete |-> TRUE]

\* NextClick with the bound off by one: it completes on the last but one question
NextClickCompletesEarly ==
    IF currentQuestion < Len(questions) - 2
    THEN [currentQuestion |-> currentQuestion + 1, showResult |-> FALSE, complete |-> FALSE]
    ELSE [currentQuestion |-> currentQuestion, showResult |-> showResult, complete |-> TRUE]

\* NextClick that increments the index on the last question too
NextClickAlwaysIncrements ==
    IF currentQuestion < Len(questions) - 1
    THEN [currentQuestion |-> currentQuestion + 1, showResult |-> FALSE, complete |-> FALSE]
    ELSE [currentQuestion |-> currentQuestion + 1, showResult |-> showResult, complete |-> TRUE]

\* what handleNext does: the QuizDisplay state it leaves behind, and whether
\* it calls onComplete
NextClick ==
    IF currentQuestion < Len(questions) - 1
    THEN [currentQuestion |-> currentQuestion + 1, showResult |-> FALSE, complete |-> FALSE]
    ELSE [currentQuestion |-> currentQuestion, showResult |-> showResult, complete |-> TRUE]

HandleNext ==
    IF ~NextClick.complete
    THEN /\ currentQuestion' = NextClick.currentQuestion
         /\ showResult' = NextClick.showResult
         /\ warned' = NoWarning
         /\ UNCHANGED <<apiKey, appVars, calls, selectionVars, score, selectedAnswers>>
    ELSE /\ HandleQuizComplete([score |-> score, totalQuestions |-> Len(questions)])
         /\ warned' = NoWarning
         /\ UNCHANGED <<apiKey, calls>>
         /\ RenderSelection
         /\ RenderQuiz

\* option buttons that are never disabled
OptionsNeverDisabled == FALSE

\* the disabled attribute of the option buttons
OptionsDisabled == isAnswered

\* a next button that is never disabled
NextNeverDisabled == FALSE

\* the disabled attribute of the next button
NextDisabled == ~isAnswered

ClickOption ==
    \E optionIndex \in 0..3 :
        /\ QuizShown
        /\ ~QuizEmpty
        /\ optionIndex < Len(Question.options)
        /\ ~OptionsDisabled
        /\ HandleAnswerClick(optionIndex)

ClickNext ==
    /\ QuizShown
    /\ ~QuizEmpty
    /\ ~NextDisabled
    /\ HandleNext

(***************************************************************************)
(* Results and the error banner.                                            *)
(***************************************************************************)
ClickRetry ==
    /\ ResultsShown
    /\ HandleRetry

ClickSelectAnother ==
    /\ ResultsShown
    /\ HandleSelectNewSubject

\* the banner's Dismiss button
ClickDismiss ==
    /\ ErrorBannerShown
    /\ HandleSelectNewSubject

Next ==
    \/ ClickSubjectCard
    \/ ClickDifficulty
    \/ ClickStart
    \/ RemoteFails
    \/ RemoteAnswers
    \/ SelectSubjectResumes
    \/ ClickOption
    \/ ClickNext
    \/ ClickRetry
    \/ ClickSelectAnother

Spec == Init /\ [][Next]_vars

(***************************************************************************)
(* The bank fallback for every subject name and difficulty a caller of      *)
(* handleSelectSubject may pass, with no key configured: the start of the   *)
(* call, and its resumption with either definition of generateMockQuestions.*)
(***************************************************************************)
\* subject names that are no key of the bank
UnknownSubjects == {"Mathematics", "Science"}

\* difficulties that are no key of a subject's entry
UnknownDifficulties == {"expert", "beginner"}

CallerSubjects == BankSubjects \cup UnknownSubjects

CallerDifficulties == BankDifficulties \cup UnknownDifficulties

FallbackInit == Init /\ ~apiKey

\* onSelectSubject({subject, difficulty}) for any subject name and difficulty
SelectAnySubject ==
    \E subject \in CallerSubjects :
        \E level \in CallerDifficulties :
            /\ SelectionShown
            /\ HandleSelectSubject(subject, level)

\* handleSelectSubject from its await to its end where generateMockQuestions
\* is the second definition
SelectSubjectResumesBySubject ==
    \E c \in 1..Len(calls) :
        LET r == generateQuizQuestions(apiKey, calls[c].response)
        IN  /\ Settled(calls[c])
            /\ r.thrown
            /\ calls' = [k \in 1..(Len(calls) - 1) |-> IF k < c THEN calls[k] ELSE calls[k + 1]]
            /\ warned' = Warning(r)
            /\ loading' = FALSE
            /\ questions' = generateMockQuestionsBySubject(calls[c].subject, calls[c].difficulty)
            /\ appState' = "quiz"
            /\ UNCHANGED <<apiKey, selectedSubject, selectedDifficulty, quizResults, error>>
            /\ RenderSelection
            /\ RenderQuiz

FallbackNext ==
    \/ SelectAnySubject
    \/ SelectSubjectResumes
    \/ SelectSubjectResumesBySubject

FallbackSpec == FallbackInit /\ [][FallbackNext]_vars

(***************************************************************************)
(* The validation of one candidate, for every combination of values that    *)
(* JSON.parse can put into its four fields: a key is configured, and the    *)
(* response is an array that holds one candidate.                           *)
(***************************************************************************)
\* q.question: a text with blanks around it, '', blanks only, absent, a number
QuestionValues ==
    {Str(<<" ", "Q", " ">>), Str(<<>>), Str(<<" ", "\t">>), Undefined, Num(7)}

\* q.options: four strings (blanks around some, one of blanks only), three
\* strings, five strings, four items one of which is a number, no array
OptionsValues ==
    {[isArray |-> TRUE,
      items |-> <<Str(<<" ", "a">>), Str(<<"b", " ">>), Str(<<"c">>), Str(<<" ">>)>>],
     [isArray |-> TRUE, items |-> <<Str(<<"a">>), Str(<<"b">>), Str(<<"c">>)>>],
     [isArray |-> TRUE,
      items |-> <<Str(<<"a">>), Str(<<"b">>), Str(<<"c">>), Str(<<"d">>), Str(<<"e">>)>>],
     [isArray |-> TRUE, items |-> <<Str(<<"a">>), Num(2), Str(<<"c">>), Str(<<"d">>)>>],
     [isArray |-> FALSE, items |-> <<>>]}

\* q.correctAnswer: 0, 3, 4, -1, 1.5, 3.5, the string '1', absent
AnswerValues ==
    {Num(0), Num(3), Num(4), Num(-1), NumHalf(1), NumHalf(3), Str(<<"1">>), Undefined}

\* q.explanation: a text with a blank after it, '', blanks only, absent, a number
ExplanationValues ==
    {Str(<<"w", "h", "y", "\t">>), Str(<<>>), Str(<<" ">>), Undefined, Num(1)}

AnyCandidates ==
    [question : QuestionValues, options : OptionsValues,
     correctAnswer : AnswerValues, explanation : ExplanationValues]

ValidatorInit == Init /\ apiKey

\* the request of a suspended call succeeds with an array of one candidate
RemoteAnswersAnyCandidate ==
    \E c \in 1..Len(calls) :
        \E q \in AnyCandidates :
            /\ apiKey
            /\ calls[c].response = NoResponse
            /\ calls' = [calls EXCEPT ![c].response = [kind |-> "array", batch |-> <<q>>]]
            /\ warned' = NoWarning
            /\ UNCHANGED <<apiKey, appVars, selectionVars, quizVars>>

ValidatorNext ==
    \/ ClickSubjectCard
    \/ ClickDifficulty
    \/ ClickStart
    \/ RemoteAnswersAnyCandidate
    \/ SelectSubjectResumes

ValidatorSpec == ValidatorInit /\ [][ValidatorNext]_vars

(***************************************************************************)
(* Results: the percentage and the performance band.                       *)
(*                                                                         *)
(* score and totalQuestions are JS numbers, IEEE 754 doubles, and the      *)
(* percentage is Math.round((score / totalQuestions) * 100): the division  *)
(* rounds to 53 significant bits, the product rounds again, and Math.round *)
(* goes to the nearest integer with ties upward.  A 53 bit significand is  *)
(* kept as five limbs of 13 bits, the least significant first, the fifth   *)
(* limb holding what is left above bit 52.                                 *)
(***************************************************************************)
LimbBits == 13

LimbBase == 2 ^ LimbBits

\* the largest number of questions of a quiz whose results are shown
MaxTotal == 200

\* base LimbBase carries of five limbs; the fifth limb keeps the overflow
CarryLimbs(a) ==
    LET b2 == a[2] + (a[1] \div LimbBase)
        b3 == a[3] + (b2 \div LimbBase)
        b4 == a[4] + (b3 \div LimbBase)
        b5 == a[5] + (b4 \div LimbBase)
    IN  <<a[1] % LimbBase, b2 % LimbBase, b3 % LimbBase, b4 % LimbBase, b5>>

AddOne(a) == CarryLimbs(<<a[1] + 1, a[2], a[3], a[4], a[5]>>)

\* the least k >= from with 2^k * scored >= totalQuestions
RECURSIVE QuotientExponent(_, _, _)
QuotientExponent(scored, totalQuestions, from) ==
    IF (2 ^ from) * scored >= totalQuestions
    THEN from
    ELSE QuotientExponent(scored, totalQuestions, from + 1)

\* scored / totalQuestions for 0 < scored < totalQuestions, rounded to nearest,
\* ties to even: the double limbs * 2^-(exponent + 52), limbs in 2^52..2^53
DoubleDivide(scored, totalQuestions) ==
    LET k  == QuotientExponent(scored, totalQuestions, 1)
        r0 == (2 ^ k) * scored - totalQuestions
        d4 == (r0 * LimbBase) \div totalQuestions
        r1 == (r0 * LimbBase) % totalQuestions
        d3 == (r1 * LimbBase) \div totalQuestions
        r2 == (r1 * LimbBase) % totalQuestions
        d2 == (r2 * LimbBase) \div totalQuestions
        r3 == (r2 * LimbBase) % totalQuestions
        d1 == (r3 * LimbBase) \div totalQuestions
        r4 == (r3 * LimbBase) % totalQuestions
        up == 2 * r4 > totalQuestions \/ (2 * r4 = totalQuestions /\ d1 % 2 = 1)
        a  == <<d1, d2, d3, d4, 1>>
    IN  [limbs |-> IF up THEN AddOne(a) ELSE a, exponent |-> k + 52]

\* x * 100 rounded to nearest, ties to even: the exact product has 6 or 7
\* bits more than a significand holds
DoubleTimes100(x) ==
    LET e    == CarryLimbs([i \in 1..5 |-> x.limbs[i] * 100])
        sh   == IF e[5] < 128 THEN 6 ELSE 7
        cut  == 2 ^ sh
        half == 2 ^ (sh - 1)
        low  == e[1] % cut
        up   == low > half \/ (low = half /\ (e[1] \div cut) % 2 = 1)
        q    == [i \in 1..5 |->
                   (e[i] \div cut)
                   + (IF i < 5 THEN (e[i + 1] % cut) * (2 ^ (LimbBits - sh)) ELSE 0)]
    IN  [limbs |-> IF up THEN AddOne(q) ELSE q, exponent |-> x.exponent - sh]

\* Math.round of a positive double: the nearest integer, a half going up
MathRound(x) ==
    LET top2 == x.limbs[5] * LimbBase + x.limbs[4]
        h    == top2 \div (2 ^ (x.exponent - 1 - 3 * LimbBits))
    IN  (h \div 2) + (h % 2)

\* const percentage = Math.round((score / totalQuestions) * 100), for
\* 0 <= scored <= totalQuestions and totalQuestions >= 1; 0 / t and t / t are
\* the doubles 0 and 1, whose products 0 and 100 are exact
percentage(scored, totalQuestions) ==
    IF scored = 0 THEN 0
    ELSE IF scored = totalQuestions THEN 100
    ELSE MathRound(DoubleTimes100(DoubleDivide(scored, totalQuestions)))

\* the messages without the emoji that ends each of them
getPerformanceMessage(p) ==
    IF p = 100 THEN "Perfect! You're a quiz master!"
    ELSE IF p >= 80 THEN "Excellent performance! Well done!"
    ELSE IF p >= 60 THEN "Good job! Keep practicing!"
    ELSE IF p >= 40 THEN "Not bad! Review and try again!"
    ELSE "Keep learning! You'll do better next time!"

getPerformanceColor(p) ==
    IF p = 100 THEN "#FFD700"
    ELSE IF p >= 80 THEN "#4CAF50"
    ELSE IF p >= 60 THEN "#2196F3"
    ELSE IF p >= 40 THEN "#FF9800"
    ELSE "#F44336"

\* what Results shows for the result App holds
ShownPercentage == percentage(quizResults[1].score, quizResults[1].totalQuestions)

ShownMessage == getPerformanceMessage(ShownPercentage)

ShownColor == getPerformanceColor(ShownPercentage)

(***************************************************************************)
(* The results screen after a quiz of any length and any score: the        *)
(* remote service answered with totalQuestions valid candidates, the quiz   *)
(* was completed with score correct answers and QuizDisplay is unmounted.   *)
(***************************************************************************)
ResultsInit ==
    \E totalQuestions \in 1..MaxTotal :
        \E correct \in 0..totalQuestions :
            /\ apiKey = TRUE
            /\ appState = "results"
            /\ selectedSubject = "Algorithms"
            /\ selectedDifficulty = "medium"
            /\ questions = [k \in 1..totalQuestions |-> CleanQuestion(ValidCandidateA)]
            /\ quizResults = <<[score |-> correct, totalQuestions |-> totalQuestions]>>
            /\ loading = FALSE
            /\ error = Null
            /\ calls = <<>>
            /\ warned = NoWarning
            /\ cardSubject = Null
            /\ difficulty = "medium"
            /\ currentQuestion = 0
            /\ score = 0
            /\ selectedAnswers = NoAnswers
            /\ showResult = FALSE

ResultsNext ==
    \/ ClickRetry
    \/ ClickSelectAnother

ResultsSpec == ResultsInit /\ [][ResultsNext]_vars

(***************************************************************************)
(* Properties.                                                              *)
(***************************************************************************)
\* the entries of the bank list an acquisition for (subject, level) falls back to
BankEntries(subject, level) ==
    {MockLookup(subject, level)[k] : k \in 1..Len(MockLookup(subject, level))}

\* a step in which a suspended handleSelectSubject runs to its end
AcquisitionEnds == Len(calls') < Len(calls)

\* the number of question indices whose recorded answer is the correct one
CorrectCount ==
    Cardinality({i \in DOMAIN selectedAnswers :
                    /\ i < Len(questions)
                    /\ StrictEqualsIndex(selectedAnswers[i], questions[i + 1].correctAnswer)})

\* a step in which the quiz hands its result to App
QuizCompletes == appState = "quiz" /\ appState' = "results"

\* C1: whatever the remote call came back with (no key, network error, HTTP
\* error, unparsable body, body that is no array, an invalid candidate, or a
\* valid batch), the acquisition ends on the quiz screen with a question list
\* assigned (the bank's five after a failure), never on the selection screen,
\* and no step ever sets the user-visible error.
C1_AcquisitionEndsInQuiz ==
    [][/\ error' = Null
       /\ AcquisitionEnds =>
            /\ appState' = "quiz"
            /\ ~loading'
            /\ generateQuizQuestions(apiKey, calls[1].response).thrown =>
                 /\ Len(questions') = 5
                 /\ \A k \in 1..5 : questions'[k] \in BankEntries(calls[1].subject, calls[1].difficulty)
            /\ ~generateQuizQuestions(apiKey, calls[1].response).thrown =>
                 Len(questions') = Len(calls[1].response.batch)]_vars

\* a quiz on bank questions after the request failed on the network
C1_Witness ==
    /\ appState = "quiz"
    /\ error = Null
    /\ warned.message = "Failed to fetch"
    /\ Len(questions) = 5

\* C2: once the current question has a recorded answer, handleAnswerClick itself
\* changes nothing for any option, whichever option (0 included) was recorded
\* first.
C2_SecondAnswerIsNoOp ==
    (QuizShown /\ ~QuizEmpty /\ isAnswered) =>
        \A optionIndex \in 0..3 :
            AnswerClick(optionIndex) =
                [selectedAnswers |-> selectedAnswers, score |-> score, showResult |-> showResult]

\* C3: the result a finished quiz reports has score = the number of questions
\* whose recorded answer is the correct one, and totalQuestions = the number
\* of questions.
C3_ResultIsCorrectCount ==
    [][QuizCompletes =>
         quizResults' = <<[score |-> CorrectCount, totalQuestions |-> Len(questions)]>>]_vars

\* a finished quiz of five questions with exactly one wrong answer
C3_Witness == appState = "results" /\ quizResults = <<[score |-> 4, totalQuestions |-> 5]>>

\* C4: while the current question has no recorded answer, no step changes the
\* current question, leaves the quiz screen or reports a result.
C4_NoAdvanceUnanswered ==
    [][(QuizShown /\ ~QuizEmpty /\ ~isAnswered) =>
         /\ currentQuestion' = currentQuestion
         /\ appState' = appState
         /\ quizResults' = quizResults]_vars

\* the second question, not answered yet: its next button is disabled
C4_Witness ==
    /\ QuizShown
    /\ currentQuestion = 1
    /\ ~isAnswered
    /\ NextDisabled

\* C5: an Advance before the last question increments currentQuestion by
\* exactly one and stays on the quiz screen; an Advance on the last question
\* does not move the index, goes to the results screen and reports
\* {score, totalQuestions = number of questions}.
C5_Advance ==
    [][(QuizShown /\ ~QuizEmpty /\ isAnswered /\ (currentQuestion' # currentQuestion \/ appState' # appState)) =>
         IF currentQuestion + 1 < Len(questions)
         THEN /\ currentQuestion' = currentQuestion + 1
              /\ appState' = "quiz"
              /\ quizResults' = quizResults
         ELSE /\ NextClick.currentQuestion = currentQuestion
              /\ appState' = "results"
              /\ quizResults' = <<[score |-> score, totalQuestions |-> Len(questions)]>>]_vars

\* the last of five questions is reached by Advances and then the results are shown
C5_Witness ==
    /\ appState = "results"
    /\ quizResults # <<>>
    /\ quizResults[1].totalQuestions = 5

\* C6: a session of n questions reaches the results exactly with its n-th
\* Advance: the step to the results is taken from the last index n - 1 with
\* all n questions answered and reports totalQuestions = n, an Advance on the
\* last question always ends the quiz, every earlier Advance moves the index
\* by one, an answered question can always be advanced and an unanswered one
\* answered; the bank fallback for Algorithms / easy gives n = 5.
C6_ResultsAfterAllQuestions ==
    [][/\ QuizCompletes =>
            /\ currentQuestion = Len(questions) - 1
            /\ DOMAIN selectedAnswers = 0..(Len(questions) - 1)
            /\ quizResults'[1].totalQuestions = Len(questions)
       /\ (QuizShown /\ ~QuizEmpty /\ isAnswered => ENABLED ClickNext)
       /\ (QuizShown /\ ~QuizEmpty /\ ~isAnswered => ENABLED ClickOption)
       /\ (QuizShown /\ isAnswered /\ currentQuestion = Len(questions) - 1
              /\ (currentQuestion' # currentQuestion \/ appState' # appState)) =>
            appState' = "results"
       /\ (QuizShown /\ QuizShown' /\ currentQuestion' # currentQuestion) =>
            currentQuestion' = currentQuestion + 1
       /\ (AcquisitionEnds /\ ~apiKey /\ calls[1].subject = "Algorithms"
              /\ calls[1].difficulty = "easy") =>
            Len(questions') = 5]_vars

\* the results of the bank's five Algorithms / easy questions
C6_Witness ==
    /\ appState = "results"
    /\ ~apiKey
    /\ selectedSubject = "Algorithms"
    /\ selectedDifficulty = "easy"
    /\ quizResults[1].totalQuestions = 5

\* some candidate of the batch fails a validation rule
HasInvalidCandidate(batch) == \E k \in 1..Len(batch) : ValidationError(batch[k]) # "none"

\* the question texts the candidates of a batch would give
CandidateTexts(batch) == {Trim(batch[k].question.s) : k \in 1..Len(batch)}

\* C7: when the response is an array with at least one invalid candidate, the
\* session gets five questions that all are entries of the bank list for the
\* call, and none of the batch's candidates.
C7_NoPartialAcceptance ==
    [][(AcquisitionEnds /\ calls[1].response.kind = "array"
          /\ HasInvalidCandidate(calls[1].response.batch)) =>
         /\ appState' = "quiz"
         /\ Len(questions') = 5
         /\ \A k \in 1..Len(questions') :
              /\ questions'[k] \in BankEntries(calls[1].subject, calls[1].difficulty)
              /\ questions'[k].question \notin CandidateTexts(calls[1].response.batch)]_vars

\* a quiz on bank questions after the second candidate was the first invalid one
C7_Witness ==
    /\ appState = "quiz"
    /\ warned.index = 2
    /\ warned.message = "Must have exactly 4 options"
    /\ \A k \in 1..Len(questions) : questions[k] \in BankEntries(selectedSubject, selectedDifficulty)

\* some control that issues an event is rendered
ControlOffered ==
    \/ ErrorBannerShown
    \/ SelectionShown
    \/ QuizShown /\ ~QuizEmpty
    \/ ResultsShown

\* C8: on the loading screen no control is rendered and exactly one call is
\* suspended; at most one call is ever suspended; the loading screen is left
\* only by that call running to its end, and until then App's state, the
\* selection and the quiz state do not change.
C8_LoadingIsExclusive ==
    [][/\ appState = "loading" => (~ControlOffered /\ Len(calls) = 1)
       /\ Len(calls') <= 1
       /\ appState # "loading" => calls = <<>>
       /\ appState = "loading" =>
            \/ AcquisitionEnds /\ appState' # "loading"
            \/ UNCHANGED <<appVars, selectionVars, quizVars>> /\ Len(calls') = 1]_vars

\* a retried acquisition whose response has arrived, not resumed yet
C8_Witness ==
    /\ appState = "loading"
    /\ quizResults # <<>>
    /\ Len(calls) = 1
    /\ calls[1].response.kind = "array"

\* C9: the start with a subject chosen goes from the selection screen to the
\* loading screen with the chosen subject and difficulty recorded, and the end
\* of the acquisition shows the quiz with currentQuestion = 0, no recorded
\* answers, score 0, and the subject and difficulty of the call.
C9_FreshSession ==
    [][/\ (appState = "selection" /\ appState' # "selection") =>
            /\ cardSubject # Null
            /\ appState' = "loading"
            /\ selectedSubject' = cardSubject
            /\ selectedDifficulty' = difficulty
            /\ calls' = <<[subject |-> cardSubject, difficulty |-> difficulty, response |-> NoResponse]>>
       /\ AcquisitionEnds =>
            /\ QuizShown'
            /\ currentQuestion' = 0
            /\ selectedAnswers' = NoAnswers
            /\ score' = 0
            /\ ~showResult'
            /\ selectedSubject' = calls[1].subject
            /\ selectedDifficulty' = calls[1].difficulty]_vars

\* the first session, on Algorithms / hard, before any answer
C9_Witness ==
    /\ QuizShown
    /\ quizResults = <<>>
    /\ selectedSubject = "Algorithms"
    /\ selectedDifficulty = "hard"
    /\ Len(questions) = 5
    /\ currentQuestion = 0
    /\ selectedAnswers = NoAnswers
    /\ score = 0

\* C10: the loading screen is entered from the results screen only with the
\* results rendered, and then with the finished session's subject and
\* difficulty as the call's; it is entered from no screen but selection and
\* results; the session such a retry leads to starts with currentQuestion = 0,
\* no recorded answers and score 0.
C10_Retry ==
    [][/\ (appState = "results" /\ appState' = "loading") =>
            /\ ResultsShown
            /\ selectedSubject' = selectedSubject
            /\ selectedDifficulty' = selectedDifficulty
            /\ calls' = <<[subject |-> selectedSubject, difficulty |-> selectedDifficulty,
                           response |-> NoResponse]>>
       /\ (appState # "loading" /\ appState' = "loading") => appState \in {"selection", "results"}
       /\ (AcquisitionEnds /\ quizResults # <<>>) =>
            /\ QuizShown'
            /\ score' = 0
            /\ currentQuestion' = 0
            /\ selectedAnswers' = NoAnswers
            /\ ~showResult'
            /\ selectedSubject' = selectedSubject
            /\ selectedDifficulty' = selectedDifficulty]_vars

\* the session after a retry of a perfect quiz: the old result is still held,
\* the new score is 0
C10_Witness ==
    /\ QuizShown
    /\ quizResults # <<>>
    /\ quizResults[1].score = 5
    /\ score = 0
    /\ currentQuestion = 0
    /\ selectedAnswers = NoAnswers

\* C11: on every screen but the loading one, handleSelectNewSubject can run and
\* every run of it ends on the selection screen with no questions, no error,
\* no result, no recorded subject or difficulty and no quiz session.
C11_SelectNewSubjectResets ==
    appState # "loading" =>
        /\ ENABLED HandleSelectNewSubject
        /\ ~ENABLED (/\ HandleSelectNewSubject
                     /\ ~(/\ appState' = "selection"
                          /\ SelectionShown'
                          /\ questions' = <<>>
                          /\ error' = Null
                          /\ quizResults' = <<>>
                          /\ selectedSubject' = Null
                          /\ selectedDifficulty' = Null
                          /\ currentQuestion' = 0
                          /\ score' = 0
                          /\ selectedAnswers' = NoAnswers))

\* the results of a two-question session, where the control that issues
\* handleSelectNewSubject is rendered
C11_Witness ==
    /\ ResultsShown
    /\ ENABLED ClickSelectAnother
    /\ Len(questions) = 2
    /\ quizResults[1].totalQuestions = 2

C14_NoStartWithoutSubject ==
    (SelectionShown /\ cardSubject = Null) =>
        /\ StartDisabled
        /\ ~ENABLED ClickStart
        /\ ~ENABLED HandleStart
        /\ calls = <<>>
        /\ ~ENABLED (Next /\ (appState' # "selection" \/ calls' # <<>>))
        /\ \A level \in OfferedDifficulties :
             ENABLED (ClickDifficulty /\ difficulty' = level /\ cardSubject' = Null /\ SelectionShown')

\* no subject chosen, difficulty hard picked: start is disabled
C14_Witness ==
    /\ SelectionShown
    /\ cardSubject = Null
    /\ difficulty = "hard"
    /\ StartDisabled

\* the suspended call resumes into the bank fallback: the quiz is shown on
\* five entries of the bank list for the call and no error is set
ResumesIntoFallback ==
    /\ appState' = "quiz"
    /\ QuizShown'
    /\ error' = Null
    /\ Len(questions') = 5
    /\ \A k \in 1..5 : questions'[k] \in BankEntries(calls[1].subject, calls[1].difficulty)

\* C15: without a key no suspended call ever gets a response and none can
\* arrive; the application shows the selection screen at its start; a
\* suspended call can resume at once, and every resumption is the bank
\* fallback after the throw for the missing key.
C15_NoKeyNoRequest ==
    ~apiKey =>
        /\ \A c \in 1..Len(calls) : calls[c].response = NoResponse
        /\ ~ENABLED RemoteFails
        /\ ~ENABLED RemoteAnswers
        /\ appState = "selection" => SelectionShown
        /\ appState = "loading" =>
             /\ ENABLED SelectSubjectResumes
             /\ ~ENABLED (/\ SelectSubjectResumes
                          /\ ~(/\ ResumesIntoFallback
                               /\ warned'.message = "OpenAI API key not configured"))

\* a quiz on five bank questions after the throw for the missing key
C15_Witness ==
    /\ ~apiKey
    /\ QuizShown
    /\ warned.message = "OpenAI API key not configured"
    /\ Len(questions) = 5

\* the failures of the request itself
RequestFailures == {"network", "http", "parse", "notArray"}

\* C16: a suspended call gets one response at most: once its response is
\* there the only step that touches the calls is the resumption of that
\* call, and after a failure the resumption is the bank fallback; a
\* response arrives only for the one suspended call, which had none and was
\* made with a key; and calls are suspended by the start and retry buttons
\* only.
C16_OneRequestPerAcquisition ==
    [][/\ \A c \in 1..Len(calls) :
            calls[c].response # NoResponse =>
                /\ AcquisitionEnds \/ calls' = calls
                /\ (AcquisitionEnds /\ calls[c].response.kind \in RequestFailures) =>
                      ResumesIntoFallback
       /\ (Len(calls') = Len(calls) /\ calls' # calls) =>
            /\ apiKey
            /\ appState = "loading"
            /\ Len(calls) = 1
            /\ calls[1].response = NoResponse
            /\ calls'[1].response # NoResponse
       /\ Len(calls') > Len(calls) => (ClickStart \/ ClickRetry)]_vars

\* a quiz on five bank questions after the one request got an HTTP error
C16_Witness ==
    /\ apiKey
    /\ QuizShown
    /\ warned.message = "Failed to generate questions"
    /\ Len(questions) = 5
    /\ calls = <<>>

\* a question of the bank as the value the validation rules look at
AsCandidate(q) ==
    [question |-> Str(q.question),
     options |-> [isArray |-> TRUE, items |-> [k \in 1..Len(q.options) |-> Str(q.options[k])]],
     correctAnswer |-> q.correctAnswer,
     explanation |-> Str(q.explanation)]

\* the entries of mockQuestions[subject][level], looked up directly
SubsetEntries(subject, level) ==
    {BankQuestion(subject, level, k) : k \in 1..Len(CorrectAnswers[subject][level])}

\* C17: without a key, the acquisition for a subject and a difficulty of the
\* bank gives exactly five questions, pairwise distinct, each passing every
\* validation rule, and all of them entries of the bank's list for that
\* subject and difficulty (with the second definition of
\* generateMockQuestions: the list of that subject).
C17_BankGivesFiveValid ==
    (/\ appState = "quiz"
     /\ selectedSubject \in BankSubjects
     /\ selectedDifficulty \in BankDifficulties) =>
        /\ Len(questions) = 5
        /\ \A k, m \in 1..Len(questions) : k # m => questions[k] # questions[m]
        /\ \A k \in 1..Len(questions) : ValidationError(AsCandidate(questions[k])) = "none"
        /\ \/ \A k \in 1..Len(questions) :
                 questions[k] \in SubsetEntries(selectedSubject, selectedDifficulty)
           \/ questions = BankListBySubject(selectedSubject)

\* the five questions the fallback gave for DevOps / hard
C17_Witness ==
    /\ ~apiKey
    /\ appState = "quiz"
    /\ selectedSubject = "DevOps"
    /\ selectedDifficulty = "hard"
    /\ Len(questions) = 5
    /\ questions[1] \in SubsetEntries("DevOps", "hard")

\* C18: without a key, the acquisition for a subject that is no key of the
\* bank ends in the quiz, not in an error, with questions that all are Data
\* Structures entries: five of the easy list with the first definition of
\* generateMockQuestions, the five of the subject's list with the second.
C18_UnknownSubjectFallsBackToDefault ==
    /\ error = Null
    /\ (appState = "loading" /\ selectedSubject \notin BankSubjects) =>
          /\ ENABLED SelectSubjectResumes
          /\ ENABLED SelectSubjectResumesBySubject
    /\ (appState = "quiz" /\ selectedSubject \notin BankSubjects) =>
          /\ Len(questions) = 5
          /\ \/ \A k \in 1..Len(questions) :
                   questions[k] \in SubsetEntries("Data Structures", "easy")
             \/ questions = BankListBySubject("Data Structures")

\* the questions the first definition gave for the unknown subject Mathematics
C18_Witness ==
    /\ appState = "quiz"
    /\ selectedSubject = "Mathematics"
    /\ selectedDifficulty = "medium"
    /\ Len(questions) = 5
    /\ questions[1] \in SubsetEntries("Data Structures", "easy")

\* the number of positions of the list a that hold x
Occurrences(a, x) == Cardinality({k \in 1..Len(a) : a[k] = x})

\* b has the length of a and holds every element as often as a does
IsPermutation(a, b) ==
    /\ Len(a) = Len(b)
    /\ \A k \in 1..Len(a) : Occurrences(a, a[k]) = Occurrences(b, a[k])
    /\ \A k \in 1..Len(b) : Occurrences(a, b[k]) = Occurrences(b, b[k])

\* input lists made of the current questions: every prefix, and every prefix
\* followed by a second copy of its first element
ShuffleInputs ==
    {SubSeq(questions, 1, n) : n \in 0..Len(questions)}
        \cup {Append(SubSeq(questions, 1, n), questions[1]) : n \in 1..Len(questions)}

OffendingFields(q) ==
    (IF q.question = Str(<<>>) THEN {"question"} ELSE {})
        \cup (IF Len(q.options.items) \in {3, 5} THEN {"options"} ELSE {})
        \cup (IF q.correctAnswer \in {Num(4), Num(-1)} THEN {"correctAnswer"} ELSE {})
        \cup (IF q.explanation = Undefined THEN {"explanation"} ELSE {})

\* the field the text of a validation error names
FieldNamed(message) ==
    CASE message \in {"Missing or invalid question text"} -> "question"
      [] message \in {"Must have exactly 4 options", "All options must be strings"} -> "options"
      [] message \in {"correctAnswer must be 0-3"} -> "correctAnswer"
      [] message \in {"Missing or invalid explanation"} -> "explanation"
      [] OTHER -> "no field"

\* C20: every candidate of a response with three or five options, with
\* correctAnswer 4 or -1, with the empty string as question or without an
\* explanation is rejected with an error that names one of its defective
\* fields, and the call throws for that response; the message handed on
\* after a rejected candidate names a field.
C20_ValidatorRejects ==
    /\ \A c \in 1..Len(calls) :
          \A k \in 1..Len(calls[c].response.batch) :
              LET q == calls[c].response.batch[k]
              IN  OffendingFields(q) # {} =>
                      /\ ValidationError(q) # "none"
                      /\ FieldNamed(ValidationError(q)) \in OffendingFields(q)
                      /\ generateQuizQuestions(apiKey, calls[c].response).thrown
    /\ warned.index > 0 => FieldNamed(warned.message) # "no field"

\* the quiz after the only candidate of the response was rejected for its
\* correctAnswer
C20_Witness ==
    /\ appState = "quiz"
    /\ warned.index = 1
    /\ warned.message = "correctAnswer must be 0-3"
    /\ Len(questions) = 5

\* the order in which the claim has the fields checked
RuleOrder == <<"question", "options", "correctAnswer", "explanation">>

\* the fields of a candidate for which a rule of the validation is violated
ViolatedRules(q) ==
    (IF Falsy(q.question) \/ TypeOf(q.question) # "string" THEN {"question"} ELSE {})
        \cup (IF \/ ~q.options.isArray
                 \/ Len(q.options.items) # 4
                 \/ \E k \in 1..Len(q.options.items) : TypeOf(q.options.items[k]) # "string"
              THEN {"options"} ELSE {})
        \cup (IF \/ TypeOf(q.correctAnswer) # "number"
                 \/ NumLess(q.correctAnswer, Num(0))
                 \/ NumLess(Num(3), q.correctAnswer)
              THEN {"correctAnswer"} ELSE {})
        \cup (IF Falsy(q.explanation) \/ TypeOf(q.explanation) # "string"
              THEN {"explanation"} ELSE {})

\* the first field in RuleOrder with a violated rule
FirstViolated(q) ==
    RuleOrder[CHOOSE k \in 1..Len(RuleOrder) :
                  /\ RuleOrder[k] \in ViolatedRules(q)
                  /\ \A m \in 1..(k - 1) : RuleOrder[m] \notin ViolatedRules(q)]

\* C21: for the one candidate of a response, the validation reports the first
\* field, in the order question, options, correctAnswer, explanation, that
\* violates a rule, and nothing when no rule is violated; the call that
\* resumes on the response hands on exactly that failure, for candidate 1.
C21_FirstFailureWins ==
    [][(AcquisitionEnds /\ calls[1].response.kind = "array" /\ Len(calls[1].response.batch) = 1) =>
         LET q == calls[1].response.batch[1]
         IN  IF ViolatedRules(q) = {}
             THEN /\ ValidationError(q) = "none"
                  /\ warned' = NoWarning
             ELSE /\ FieldNamed(ValidationError(q)) = FirstViolated(q)
                  /\ warned'.index = 1
                  /\ FieldNamed(warned'.message) = FirstViolated(q)]_vars

\* a suspended call whose candidate violates the rules of options,
\* correctAnswer and explanation: the validation reports the options
C21_Witness ==
    /\ appState = "loading"
    /\ Len(calls) = 1
    /\ calls[1].response.kind = "array"
    /\ ViolatedRules(calls[1].response.batch[1]) = {"options", "correctAnswer", "explanation"}
    /\ ValidationError(calls[1].response.batch[1]) = "Must have exactly 4 options"
    /\ ENABLED SelectSubjectResumes

\* C22: a candidate passes the validation only if its question and its
\* explanation are strings that are not empty once trimmed, so every question
\* a remote response gives the session has a non-empty question text and a
\* non-empty explanation.
C22_AcceptedTextNotBlank ==
    /\ \A c \in 1..Len(calls) :
          \A k \in 1..Len(calls[c].response.batch) :
              LET q == calls[c].response.batch[k]
              IN  ValidationError(q) = "none" =>
                      /\ TypeOf(q.question) = "string"
                      /\ Trim(q.question.s) # <<>>
                      /\ TypeOf(q.explanation) = "string"
                      /\ Trim(q.explanation.s) # <<>>
    /\ (appState = "quiz" /\ warned = NoWarning) =>
          \A k \in 1..Len(questions) :
              /\ questions[k].question # <<>>
              /\ questions[k].explanation # <<>>

\* the integers 0, 1, 2, 3 as values of correctAnswer
OptionIndices == {Num(i) : i \in 0..3}

\* C23: a candidate passes the validation only if its correctAnswer is one of
\* the integers 0, 1, 2, 3; a candidate with any other correctAnswer whose
\* question and options pass their rules is rejected with the correctAnswer
\* failure.
C23_AnswerIsOptionIndex ==
    \A c \in 1..Len(calls) :
        \A k \in 1..Len(calls[c].response.batch) :
            LET q == calls[c].response.batch[k]
            IN  /\ ValidationError(q) = "none" => q.correctAnswer \in OptionIndices
                /\ (/\ q.correctAnswer \notin OptionIndices
                     /\ ViolatedRules(q) \cap {"question", "options"} = {}) =>
                        ValidationError(q) = "correctAnswer must be 0-3"

\* out is inp without the whitespace at its two ends: inp is whitespace, then
\* out, then whitespace, and out neither starts nor ends with whitespace
IsTrimOf(out, inp) ==
    /\ out # <<>> => (out[1] \notin Whitespace /\ out[Len(out)] \notin Whitespace)
    /\ \E i \in 0..Len(inp) :
          /\ i + Len(out) <= Len(inp)
          /\ SubSeq(inp, i + 1, i + Len(out)) = out
          /\ \A m \in 1..i : inp[m] \in Whitespace
          /\ \A m \in (i + Len(out) + 1)..Len(inp) : inp[m] \in Whitespace

\* C24: when a call resumes on a response whose candidates all pass the
\* validation, the session's k-th question has the k-th candidate's question
\* and explanation without the whitespace at their ends, its four options in
\* their order, each without the whitespace at its ends, and its
\* correctAnswer unchanged.
C24_OutputIsTrimmed ==
    [][(AcquisitionEnds /\ ~generateQuizQuestions(apiKey, calls[1].response).thrown) =>
         /\ Len(questions') = Len(calls[1].response.batch)
         /\ \A k \in 1..Len(questions') :
              LET q == calls[1].response.batch[k]
                  out == questions'[k]
              IN  /\ IsTrimOf(out.question, q.question.s)
                  /\ IsTrimOf(out.explanation, q.explanation.s)
                  /\ Len(out.options) = 4
                  /\ \A m \in 1..4 : IsTrimOf(out.options[m], q.options.items[m].s)
                  /\ out.correctAnswer = q.correctAnswer]_vars

\* the session on the candidate " Q " with options " a", "b ", "c", " ",
\* correctAnswer 3 and explanation "why\t", all trimmed
C24_Witness ==
    /\ appState = "quiz"
    /\ warned = NoWarning
    /\ questions =
          <<[question |-> <<"Q">>,
             options |-> << <<"a">>, <<"b">>, <<"c">>, <<>> >>,
             correctAnswer |-> Num(3),
             explanation |-> <<"w", "h", "y">>]>>

\* C25: every question a remote response gave the session passes the
\* validation again, and the question this second validation returns is the
\* same question.
C25_ValidationIsIdempotent ==
    (appState = "quiz" /\ warned = NoWarning) =>
        \A k \in 1..Len(questions) :
            /\ ValidationError(AsCandidate(questions[k])) = "none"
            /\ CleanQuestion(AsCandidate(questions[k])) = questions[k]

\* C26: a call that resumes on an array whose length is not the requested
\* count and whose candidates all pass the validation shows the quiz without
\* any failure handed on, on as many questions as the array has candidates,
\* the k-th question being the k-th candidate (trimmed, correctAnswer
\* unchanged); and a quiz that completes reports the length of its question
\* list as totalQuestions.
C26_AnyLengthAccepted ==
    [][/\ (/\ AcquisitionEnds
            /\ calls[1].response.kind = "array"
            /\ Len(calls[1].response.batch) # RequestedCount
            /\ \A k \in 1..Len(calls[1].response.batch) :
                   ViolatedRules(calls[1].response.batch[k]) = {}) =>
            /\ QuizShown'
            /\ warned' = NoWarning
            /\ Len(questions') = Len(calls[1].response.batch)
            /\ \A k \in 1..Len(questions') :
                  /\ IsTrimOf(questions'[k].question, calls[1].response.batch[k].question.s)
                  /\ IsTrimOf(questions'[k].explanation, calls[1].response.batch[k].explanation.s)
                  /\ questions'[k].correctAnswer = calls[1].response.batch[k].correctAnswer
       /\ QuizCompletes =>
            /\ questions' = questions
            /\ quizResults'[1].totalQuestions = Len(questions)]_vars

\* the results of the session on the array of the two candidates "R2", " R1 "
\* in this order
C26_Witness ==
    /\ appState = "results"
    /\ quizResults[1].totalQuestions = 2
    /\ Len(questions) = 2
    /\ questions[1].question = <<"R", "2">>
    /\ questions[2].question = <<"R", "1">>

\* C27: every step taken on the quiz screen (an answer, an advance, the
\* completion of the quiz) stays in the session or ends it on the results
\* screen, and leaves the recorded subject, the recorded difficulty and the
\* question list as they are.
C27_SessionDataIsFixed ==
    [][appState = "quiz" =>
         /\ appState' \in {"quiz", "results"}
         /\ UNCHANGED <<selectedSubject, selectedDifficulty, questions>>]_vars

\* the results of a session on Algorithms / hard with three correct answers:
\* the subject, the difficulty and the five bank questions are still held
C27_Witness ==
    /\ appState = "results"
    /\ selectedSubject = "Algorithms"
    /\ selectedDifficulty = "hard"
    /\ quizResults = <<[score |-> 3, totalQuestions |-> 5]>>
    /\ Len(questions) = 5
    /\ \A k \in 1..5 : questions[k] \in SubsetEntries("Algorithms", "hard")

\* the part of C28 on how currentQuestion moves: a session starts with
\* currentQuestion = 0, and a step within the quiz that changes
\* currentQuestion is taken with the current question answered and adds
\* exactly one
IndexMovesByOne ==
    /\ AcquisitionEnds => currentQuestion' = 0
    /\ (QuizShown /\ QuizShown' /\ currentQuestion' # currentQuestion) =>
          /\ isAnswered
          /\ currentQuestion' = currentQuestion + 1

\* C28 as stated: currentQuestion starts at 0 and moves by exactly one on an
\* advance of an answered question only, and the session ends with
\* currentQuestion equal to the number of questions.
C28_IndexEndsAtLength ==
    [][/\ IndexMovesByOne
       /\ QuizCompletes => NextClick.currentQuestion = Len(questions)]_vars

\* C28 amended: currentQuestion starts at 0 and moves by exactly one on an
\* advance of an answered question only; while questions are shown it stays
\* below the number of questions; the session ends by the advance of the
\* answered last question, at currentQuestion = number of questions - 1,
\* which handleNext leaves as it is.
C28_IndexEndsAtLast ==
    [][/\ IndexMovesByOne
       /\ (QuizShown /\ ~QuizEmpty) => currentQuestion < Len(questions)
       /\ QuizCompletes =>
            /\ isAnswered
            /\ currentQuestion = Len(questions) - 1
            /\ NextClick.currentQuestion = currentQuestion]_vars

\* the last of five questions answered, after four advances: the next advance
\* ends the session
C28_Witness ==
    /\ QuizShown
    /\ Len(questions) = 5
    /\ currentQuestion = 4
    /\ DOMAIN selectedAnswers = 0..4
    /\ NextClick.complete

\* on the results screen the result of the finished session is held: its
\* total is the number of the session's questions and its score is the
\* score the quiz reported
ResultHeldOnResults ==
    /\ appState = "results" =>
          /\ quizResults # <<>>
          /\ quizResults[1].totalQuestions = Len(questions)
    /\ QuizCompletes => quizResults' = <<[score |-> score, totalQuestions |-> Len(questions)]>>

\* C29 as stated: the result is held on the results screen, and after
\* handleSelectNewSubject or the handleSelectSubject of a retry no result is
\* held: none on the selection screen, none while loading, none in the quiz.
C29_ResultDroppedOnNewSelection ==
    [][/\ ResultHeldOnResults
       /\ appState' \in {"selection", "loading", "quiz"} => quizResults' = <<>>]_vars

\* C29 amended: the result is held on the results screen; handleSelectNewSubject
\* drops it, so none is held on the selection screen; a retry keeps it, through
\* the loading and the new quiz, until the completion of the new quiz
\* replaces it; nothing else changes it.
C29_ResultHeldUntilReplaced ==
    [][/\ ResultHeldOnResults
       /\ appState' = "selection" => quizResults' = <<>>
       /\ (appState = "results" /\ appState' = "loading") =>
            /\ quizResults' = quizResults
            /\ quizResults' # <<>>
       /\ quizResults' # quizResults =>
            \/ QuizCompletes
            \/ appState = "results" /\ appState' = "selection"]_vars

\* a retry has suspended its call: the result 2 of 5 of the finished session
\* is still held
C29_Witness ==
    /\ appState = "loading"
    /\ Len(calls) = 1
    /\ calls[1].response = NoResponse
    /\ quizResults = <<[score |-> 2, totalQuestions |-> 5]>>

\* the number of questions with a recorded answer
AnsweredCount == Cardinality(DOMAIN selectedAnswers)

C31_QuizCanBeCompleted ==
    QuizShown =>
        /\ Len(questions) >= 1
        /\ ENABLED ClickOption \/ ENABLED ClickNext

C33_IndexInRange ==
    (QuizShown /\ ~QuizEmpty) =>
        /\ currentQuestion \in 0..(Len(questions) - 1)
        /\ (currentQuestion + 1) \in DOMAIN questions
        /\ NextClick.currentQuestion \in 0..(Len(questions) - 1)

\* the only question of a one-question session, answered: the advance cannot
\* move past it
C33_Witness ==
    /\ QuizShown
    /\ Len(questions) = 1
    /\ currentQuestion = 0
    /\ isAnswered
    /\ NextClick.complete

\* C34: while the quiz is shown on a list that is not empty, showResult is
\* true exactly when the current question has a recorded answer, whichever
\* option (0 included) was recorded: every answer issued for a question
\* without one sets it, and handleNext moving on to the next question
\* resets it.
C34_FeedbackIffAnswered ==
    (QuizShown /\ ~QuizEmpty) =>
        /\ showResult <=> isAnswered
        /\ ~isAnswered =>
              \A optionIndex \in 0..3 :
                  /\ AnswerClick(optionIndex).showResult
                  /\ currentQuestion \in DOMAIN AnswerClick(optionIndex).selectedAnswers
        /\ (isAnswered /\ ~NextClick.complete) =>
              /\ ~NextClick.showResult
              /\ NextClick.currentQuestion \notin DOMAIN selectedAnswers

\* the second question answered with option 0: its feedback is shown
C34_Witness ==
    /\ QuizShown
    /\ currentQuestion = 1
    /\ isAnswered
    /\ selectedAnswers[1] = 0
    /\ showResult

\* the screen and App's data agree: on the results screen a result is held;
\* on the quiz and the results screen a subject and a difficulty are
\* recorded; on the selection screen no subject, no difficulty, no questions
\* and no result are held
ScreenAgreesWithData ==
    /\ appState = "results" => quizResults # <<>>
    /\ appState \in {"quiz", "results"} =>
          /\ selectedSubject # Null
          /\ selectedDifficulty # Null
    /\ appState = "selection" =>
          /\ selectedSubject = Null
          /\ selectedDifficulty = Null
          /\ questions = <<>>
          /\ quizResults = <<>>

\* C35: the screen and the data agree before and after every step, and the
\* step from the results screen to the selection screen
\* (handleSelectNewSubject) leaves no subject, difficulty, questions or
\* result behind.
C35_ScreenAgreesWithData ==
    [][/\ ScreenAgreesWithData
       /\ ScreenAgreesWithData'
       /\ (appState = "results" /\ appState' = "selection") =>
            /\ selectedSubject # Null
            /\ questions # <<>>
            /\ quizResults # <<>>
            /\ selectedSubject' = Null
            /\ selectedDifficulty' = Null
            /\ questions' = <<>>
            /\ quizResults' = <<>>]_vars

\* the results of a session on Data Structures / easy with no correct answer,
\* from where Select Another Subject can be clicked
C35_Witness ==
    /\ ResultsShown
    /\ selectedSubject = "Data Structures"
    /\ selectedDifficulty = "easy"
    /\ quizResults = <<[score |-> 0, totalQuestions |-> 5]>>
    /\ ENABLED ClickSelectAnother

\* C36: loading is true exactly on the loading screen, where a call is
\* suspended; the step that suspends a call sets it and the step in which
\* the call runs to its end, with remote questions or with the bank's,
\* resets it.
C36_LoadingFlagIffLoading ==
    [][/\ loading <=> appState = "loading"
       /\ loading' <=> appState' = "loading"
       /\ loading' <=> calls' # <<>>
       /\ Len(calls') > Len(calls) => (~loading /\ loading')
       /\ AcquisitionEnds => (loading /\ ~loading')]_vars

\* the quiz after a response body that was no array: the bank's questions
\* are shown and loading is false
C36_Witness ==
    /\ QuizShown
    /\ ~loading
    /\ warned.message = "Invalid response format: expected array of questions"
    /\ Len(questions) = 5

\* C37: when a call made without a key runs to its end, the session records
\* the subject and the difficulty of the call as they were passed; for a
\* subject of the bank with a difficulty that is none of easy, medium, hard
\* the five questions are those of the subject's easy list, and for a
\* subject that is not in the bank they are those of the Data Structures
\* easy list, whatever the difficulty (with the second definition of
\* generateMockQuestions, which has no difficulties: the list of the
\* subject, and the Data Structures list).
C37_LookupDefaults ==
    [][AcquisitionEnds =>
         /\ selectedSubject' = calls[1].subject
         /\ selectedDifficulty' = calls[1].difficulty
         /\ Len(questions') = 5
         /\ (calls[1].subject \in BankSubjects /\ calls[1].difficulty \notin BankDifficulties) =>
              \/ \A k \in 1..5 : questions'[k] \in SubsetEntries(calls[1].subject, "easy")
              \/ questions' = BankListBySubject(calls[1].subject)
         /\ calls[1].subject \notin BankSubjects =>
              \/ \A k \in 1..5 : questions'[k] \in SubsetEntries("Data Structures", "easy")
              \/ questions' = BankListBySubject("Data Structures")]_vars

\* the session for DevOps / expert on the questions of the DevOps easy list
C37_Witness ==
    /\ appState = "quiz"
    /\ selectedSubject = "DevOps"
    /\ selectedDifficulty = "expert"
    /\ Len(questions) = 5
    /\ \A k \in 1..5 : questions[k] \in SubsetEntries("DevOps", "easy")

\* the nearest integer to 100 * s / t, a half going up
NearestPercent(s, t) == (200 * s + t) \div (2 * t)

\* C38: on the results screen, for every total >= 1 and every score from 0
\* to the total, the displayed percentage is 100 * score / total rounded to
\* the nearest integer, the perfect-score message and colour are shown only
\* when the score equals the total, and the percentage lies in exactly one of
\* the bands 100, 80..99, 60..79, 40..59, 0..39, whose message and colour
\* are the ones shown.
C38_PercentageAndBands ==
    ResultsShown =>
        LET r == quizResults[1]
            bands == <<40..59, 60..79, 80..99, {100}>>
        IN  /\ r.totalQuestions >= 1 /\ r.score \in 0..r.totalQuestions
            /\ ShownPercentage = NearestPercent(r.score, r.totalQuestions)
            /\ ShownMessage = getPerformanceMessage(100) => r.score = r.totalQuestions
            /\ ShownColor = getPerformanceColor(100) => r.score = r.totalQuestions
            /\ ShownPercentage \in 0..100
            /\ \A k \in 1..4 :
                 ShownPercentage \in bands[k] <=>
                    /\ ShownMessage = getPerformanceMessage(20 + 20 * k)
                    /\ ShownColor = getPerformanceColor(20 + 20 * k)
            /\ ShownPercentage \in 0..39 <=>
                    /\ ShownMessage = getPerformanceMessage(0)
                    /\ ShownColor = getPerformanceColor(0)

====
